---------------------------- MODULE Spec2Model ----------------------------
(***************************************************************************)
(* A model of LinkedInTelegramBot                                          *)
(* (src/linkedin_ai_agent/src/linkedin_ai_agent/telegram_bot.py): the two  *)
(* per-user dictionaries, the command handlers and the text-message        *)
(* handler with the question planner and the writing-style analysis.       *)
(*                                                                         *)
(* A text is a sequence of symbols.  A symbol stands for one run of        *)
(* characters of the Python string: " " is whitespace, "a" a plain word,   *)
(* "Yeah" and "Hey" words that str.lower() changes, "!" a punctuation      *)
(* mark.  The fixed texts of the bot are one-symbol sequences holding the  *)
(* literal of the source, so an f-string is a concatenation.               *)
(*                                                                         *)
(* Handlers are dispatched one update at a time (the Application is built  *)
(* without concurrent_updates), so one handler call is one step.           *)
(* Timestamps (datetime.now()) and the never-read 'context_gathered' and   *)
(* 'created_at' entries are left out.                                      *)
(*                                                                         *)
(* The module also models ConversationPerformanceMonitor                   *)
(* (src/linkedin_ai_agent/src/linkedin_ai_agent/utils/                     *)
(* performance_monitor.py): its two metric dictionaries and its methods.   *)
(* No code of the repository constructs the monitor or calls it, so the    *)
(* handlers of the bot leave it as it is and the monitor has              *)
(* specifications of its own in which any caller may call any method.      *)
(* Times are whole ticks of a clock that is not set back; a quotient of    *)
(* two numbers is kept as a fraction in lowest terms.                      *)
(*                                                                         *)
(* SpecAsync runs the text and cancel handlers as coroutines that other    *)
(* handlers interleave with where an await suspends them; in_flight holds  *)
(* the suspended ones.  SpecTool models HumanInputTool._run                *)
(* (src/linkedin_ai_agent/src/linkedin_ai_agent/tools/human_input_tool.py) *)
(* with an input handler that returns a text or raises; the timestamps and *)
(* response times of its history entries are left out.                     *)
(***************************************************************************)
EXTENDS Integers, Sequences, FiniteSets, TLC

VARIABLES
    user_sessions,          \* self.user_sessions: user id -> session dict
    conversation_context,   \* self.conversation_context: user id -> context dict
    sent,                   \* the update handled last (its user, command and text)
                            \* and the replies the handler sent
    metrics,                \* monitor.metrics: user id -> metrics dict
    global_metrics,         \* monitor.global_metrics
    now,                    \* what time.time() returns
    returned,               \* the monitor call made last and what it returned
    in_flight,              \* the handler coroutines suspended at an await
    conversation_history,   \* tool._conversation_history
    response_cache,         \* tool._response_cache
    ran                     \* the _run call made last: its question, whether the
                            \* input handler was called and raised, and the
                            \* text returned

vars == <<user_sessions, conversation_context, sent,
          metrics, global_metrics, now, returned,
          in_flight, conversation_history, response_cache, ran>>

bot_vars == <<user_sessions, conversation_context, sent>>

monitor_vars == <<metrics, global_metrics, now, returned>>

tool_vars == <<conversation_history, response_cache, ran>>

---------------------------------------------------------------------------
(* Bounds of the model *)

\* messages handled in one conversation, in Spec
MaxTurns == 2
\* messages handled in one conversation, in SpecLong
MaxTurnsLong == 9
\* messages handled in one conversation, in SpecStyle
MaxTurnsStyle == 3
\* start_question calls, in SpecMon
MaxQuestions == 2
\* record_timeout calls, in SpecMon
MaxTimeouts == 1
\* ticks of the clock, in SpecMon
MaxClock == 1
\* start_question calls, in SpecWindow
MaxWindowQuestions == 102
\* ticks of the clock, and the questions during which it ticks, in
\* SpecWindow
MaxSlow == 2
\* start_question calls, in SpecSuggest
MaxSuggestQuestions == 2
\* ticks of the clock, in SpecSuggest
MaxSuggestClock == 5
\* handlers suspended at one time, in SpecAsync
MaxInFlight == 3
\* entries of the history before a _run call, in SpecTool
MaxHistory == 6

Users == {1, 2}
\* update.effective_user is None
NoUser == 0

\* Raw message texts (update.message.text) an update may carry, in Spec.
RawTexts ==
    { <<>>,                            \* no text
      <<" ">>,                         \* whitespace only
      <<" ", "a", " ">>,               \* surrounded by whitespace
      <<"Yeah", " ", "Hey", "!">> }    \* every style marker

\* Raw message texts in SpecLong.
LongTexts == { <<" ">>, <<" ", "a">>, <<"Yeah", " ", "Hey", "!">> }

---------------------------------------------------------------------------
(* Python helpers *)

\* d[k] = v on a dict
Put(d, k, v) == [x \in (DOMAIN d) \cup {k} |-> IF x = k THEN v ELSE d[x]]

\* del d[k]
Del(d, k) == [x \in (DOMAIN d) \ {k} |-> d[x]]

IsSpace(c) == c = " "

\* str.strip(): leading and trailing whitespace removed
RECURSIVE lstrip(_)
lstrip(t) == IF t # <<>> /\ IsSpace(Head(t)) THEN lstrip(Tail(t)) ELSE t

RECURSIVE rstrip(_)
rstrip(t) ==
    IF t # <<>> /\ IsSpace(t[Len(t)]) THEN rstrip(SubSeq(t, 1, Len(t) - 1)) ELSE t

strip(t) == rstrip(lstrip(t))

\* str.lower()
lower(t) ==
    [i \in 1..Len(t) |->
        CASE t[i] = "Yeah" -> "yeah"
          [] t[i] = "Hey"  -> "hey"
          [] OTHER         -> t[i]]

\* len(str.split()): the number of maximal runs of non-whitespace
split_len(t) ==
    Cardinality({i \in 1..Len(t) :
                    /\ ~IsSpace(t[i])
                    /\ (i = 1 \/ IsSpace(t[i - 1]))})

\* any(w in t for w in words)
contains_any(t, words) == \E i \in 1..Len(t) : t[i] \in words

\* An Optional[str] is a sequence of at most one text: <<>> is None.
None == <<>>
Some(t) == <<t>>

\* bool(x) of an Optional[str]: None and "" are falsy
truthy(opt) == opt # None /\ opt[1] # <<>>

---------------------------------------------------------------------------
(* The dictionaries a session starts from *)

new_session == [status |-> "ready", questions_asked |-> 0]

EmptyDict == [k \in {} |-> <<>>]

new_context ==
    [initial_idea        |-> None,
     questions_asked     |-> <<>>,
     responses_given     |-> <<>>,
     focus_areas_covered |-> {},
     user_writing_style  |-> EmptyDict,
     conversation_flow   |-> <<>>]

---------------------------------------------------------------------------
(* The question planner *)

\* areas_needed: a dict, iterated in insertion order
areas_needed ==
    << [area |-> "audience",
        question |-> <<"Who exactly are you trying to reach?">>],
       [area |-> "hook_style",
        question |-> <<"What kind of hook grabs you - bold statement or thought-provoking question?">>],
       [area |-> "personal_story",
        question |-> <<"Got any personal experience with this topic?">>],
       [area |-> "unique_angle",
        question |-> <<"What's your unique take on this?">>],
       [area |-> "key_message",
        question |-> <<"What's the main message you want to get across?">>],
       [area |-> "writing_style",
        question |-> <<"How do you usually write - formal or conversational?">>] >>

\* the question of the is_first branch, an f-string around the idea
first_question(idea) ==
    <<"Got it! So you want to write about ">> \o idea
        \o <<". Who's your target audience for this post?">>

ready_prompt ==
    <<"Perfect! I think I have enough context. Ready to create your LinkedIn post? Type /summary to generate it!">>

fallback_question == <<"Tell me more about what you want to achieve with this post?">>

\* the questions asked before the ready prompt is allowed
MinQuestions == 4

\* the indexes of areas_needed not yet in focus_areas_covered
uncovered(context) ==
    {i \in 1..Len(areas_needed) :
        areas_needed[i].area \notin context.focus_areas_covered}

\* next_area with the scan reversed: the last uncovered area
next_area_reversed(context) ==
    CHOOSE i \in uncovered(context) : \A j \in uncovered(context) : i >= j

\* the first area the for loop finds uncovered
next_area(context) ==
    CHOOSE i \in uncovered(context) : \A j \in uncovered(context) : i <= j

\* _ask_strategic_question not counting the questions of the areas
ask_strategic_question_uncounted(session, context, is_first) ==
    IF is_first
    THEN LET question == first_question(context.initial_idea[1])
         IN  [session  |-> [session EXCEPT !.questions_asked = @ + 1],
              context  |-> [context EXCEPT
                               !.focus_areas_covered = @ \cup {"initial_idea"},
                               !.questions_asked = Append(@, question)],
              response |-> question]
    ELSE IF uncovered(context) # {}
    THEN LET a == areas_needed[next_area(context)]
         IN  [session  |-> session,
              context  |-> [context EXCEPT
                               !.focus_areas_covered = @ \cup {a.area},
                               !.questions_asked = Append(@, a.question)],
              response |-> a.question]
    ELSE IF session.questions_asked >= MinQuestions
    THEN [session |-> session, context |-> context, response |-> ready_prompt]
    ELSE [session |-> session, context |-> context, response |-> fallback_question]

\* _ask_strategic_question: the session, the context and the text returned
ask_strategic_question(session, context, is_first) ==
    IF is_first
    THEN LET question == first_question(context.initial_idea[1])
         IN  [session  |-> [session EXCEPT !.questions_asked = @ + 1],
              context  |-> [context EXCEPT
                               !.focus_areas_covered = @ \cup {"initial_idea"},
                               !.questions_asked = Append(@, question)],
              response |-> question]
    ELSE IF uncovered(context) # {}
    THEN LET a == areas_needed[next_area(context)]
         IN  [session  |-> [session EXCEPT !.questions_asked = @ + 1],
              context  |-> [context EXCEPT
                               !.focus_areas_covered = @ \cup {a.area},
                               !.questions_asked = Append(@, a.question)],
              response |-> a.question]
    ELSE IF session.questions_asked >= MinQuestions
    THEN [session |-> session, context |-> context, response |-> ready_prompt]
    ELSE [session |-> session, context |-> context, response |-> fallback_question]

---------------------------------------------------------------------------
(* The writing-style analysis *)

casual_markers == {"yeah", "like", "kinda", "gonna"}
enthusiasm_marks == {"!", "?", "..."}
friendly_words == {"hey", "cool", "awesome", "great"}

\* a message of fewer words than this is concise
DetailedWords == 20

style_indicators(message) ==
    [tone       |-> IF contains_any(lower(message), casual_markers)
                    THEN "conversational" ELSE "professional",
     length     |-> IF split_len(message) < DetailedWords
                    THEN "concise" ELSE "detailed",
     enthusiasm |-> IF contains_any(message, enthusiasm_marks)
                    THEN "high" ELSE "moderate",
     formality  |-> IF contains_any(lower(message), friendly_words)
                    THEN "casual" ELSE "formal"]

\* dict.update(other) keeping the values d already has
update_keeping(d, other) ==
    [k \in (DOMAIN d) \cup (DOMAIN other) |->
        IF k \in DOMAIN d THEN d[k] ELSE other[k]]

\* dict.update(other)
update(d, other) ==
    [k \in (DOMAIN d) \cup (DOMAIN other) |->
        IF k \in DOMAIN other THEN other[k] ELSE d[k]]

\* _analyze_writing_style: the context with the style updated
analyze_writing_style(context, message) ==
    [context EXCEPT !.user_writing_style = update(@, style_indicators(message))]

---------------------------------------------------------------------------
(* The response to one message *)

\* generate_instant_response with the idea message also stored as a response
generate_instant_response_logging_idea(session, context, user_message) ==
    IF ~truthy(context.initial_idea)
    THEN ask_strategic_question(
             [session EXCEPT !.status = "brainstorming"],
             [context EXCEPT !.initial_idea = Some(user_message),
                             !.responses_given = Append(@, user_message)],
             TRUE)
    ELSE ask_strategic_question(
             session,
             analyze_writing_style(
                 [context EXCEPT !.responses_given = Append(@, user_message)],
                 user_message),
             FALSE)

\* _generate_instant_response: the session, the context and the text returned
generate_instant_response(session, context, user_message) ==
    IF ~truthy(context.initial_idea)
    THEN ask_strategic_question(
             [session EXCEPT !.status = "brainstorming"],
             [context EXCEPT !.initial_idea = Some(user_message)],
             TRUE)
    ELSE ask_strategic_question(
             session,
             analyze_writing_style(
                 [context EXCEPT !.responses_given = Append(@, user_message)],
                 user_message),
             FALSE)

\* "\n".join(parts) of a list of texts
RECURSIVE join(_)
join(parts) ==
    IF parts = <<>> THEN <<>>
    ELSE IF Len(parts) = 1 THEN parts[1]
    ELSE parts[1] \o <<"\n">> \o join(Tail(parts))

\* the responses used as key points: responses_given[:KeyPoints]
KeyPoints == 3

\* _generate_final_content (the emoji of the literals are written as words)
generate_final_content(context) ==
    LET responses_given == context.responses_given
        key_points == SubSeq(responses_given, 1,
                             IF Len(responses_given) < KeyPoints
                             THEN Len(responses_given) ELSE KeyPoints)
        hook == IF truthy(context.initial_idea)
                THEN << <<"(rocket) ">> \o context.initial_idea[1] >> ELSE <<>>
        points == [i \in 1..Len(key_points) |->
                      <<"\n", ToString(i), ". ">> \o key_points[i]]
        call_to_action ==
            << <<"\nWhat's your take on this? Let me know in the comments!">> >>
    IN  join(hook \o points \o call_to_action)

---------------------------------------------------------------------------
(* The texts of the replies (emoji and markdown marks left out) *)

welcome_message == <<"Welcome to LinkedIn AI Agent!">>
fresh_start_message == <<"Fresh start! What's your LinkedIn content idea?">>
no_active_message == <<"No active conversation. Just send me your idea to start!">>
reset_message == <<"Conversation reset! Send me a new idea to start fresh.">>
no_summary_message ==
    <<"No conversation to summarize. Start by sharing your content idea!">>
creating_message == <<"Creating your LinkedIn post...">>
post_header == <<"Your LinkedIn Post:\n\n">>
help_text == <<"LinkedIn AI Agent Help">>

\* str() of an Optional[str] inside an f-string
str(opt) == IF opt = None THEN <<"None">> ELSE opt[1]

\* the f-string of status_command; context_data is the context of the
\* user, or {} when the user has none
status_text(session, context_data) ==
    <<"Conversation Status: Idea: ">>
        \o (IF "initial_idea" \in DOMAIN context_data
            THEN str(context_data.initial_idea) ELSE <<"Not set">>)
        \o <<" Questions Asked: ", ToString(session.questions_asked),
             " Areas Covered: ",
             ToString(IF "focus_areas_covered" \in DOMAIN context_data
                      THEN Cardinality(context_data.focus_areas_covered)
                      ELSE 0),
             " Status: ", session.status>>

---------------------------------------------------------------------------
(* The handlers.  eu is update.effective_user (NoUser: None), has_message  *)
(* tells whether update.message is set, and sent records the update and    *)
(* the reply_text calls of the handler.                                    *)

Sent(eu, command, text, replies) ==
    [user |-> eu, command |-> command, text |-> text, replies |-> replies]

\* the early return creating the session of a user that has none
dropped_creating(eu, command, text) ==
    /\ sent' = Sent(eu, command, text, <<>>)
    /\ user_sessions' =
           IF eu = NoUser \/ eu \in DOMAIN user_sessions
           THEN user_sessions
           ELSE [x \in (DOMAIN user_sessions) \cup {eu} |->
                    IF x = eu
                    THEN [status |-> "ready", questions_asked |-> 0]
                    ELSE user_sessions[x]]
    /\ UNCHANGED conversation_context

\* the early return of a handler: nothing is changed and nothing is sent
dropped(eu, command, text) ==
    /\ sent' = Sent(eu, command, text, <<>>)
    /\ UNCHANGED <<user_sessions, conversation_context>>

\* start_command leaving the writing style of an existing context in place
start_command_keeping_style(eu, has_message) ==
    IF eu = NoUser \/ ~has_message
    THEN dropped(eu, "start", <<>>)
    ELSE /\ user_sessions' = Put(user_sessions, eu, new_session)
         /\ conversation_context' =
                Put(conversation_context, eu,
                    IF eu \in DOMAIN conversation_context
                    THEN [new_context EXCEPT !.user_writing_style =
                             conversation_context[eu].user_writing_style]
                    ELSE new_context)
         /\ sent' = Sent(eu, "start", <<>>, <<welcome_message>>)

\* start_command resetting only a session that exists
start_command_existing_only(eu, has_message) ==
    IF eu = NoUser \/ ~has_message
    THEN dropped(eu, "start", <<>>)
    ELSE /\ user_sessions' = IF eu \in DOMAIN user_sessions
                             THEN Put(user_sessions, eu, new_session)
                             ELSE user_sessions
         /\ conversation_context' = IF eu \in DOMAIN conversation_context
                                    THEN Put(conversation_context, eu, new_context)
                                    ELSE conversation_context
         /\ sent' = Sent(eu, "start", <<>>, <<welcome_message>>)

start_command(eu, has_message) ==
    IF eu = NoUser \/ ~has_message
    THEN dropped(eu, "start", <<>>)
    ELSE /\ user_sessions' = Put(user_sessions, eu, new_session)
         /\ conversation_context' = Put(conversation_context, eu, new_context)
         /\ sent' = Sent(eu, "start", <<>>, <<welcome_message>>)

\* create_command resetting the context only
create_command_keeping_session(eu, has_message) ==
    IF eu = NoUser \/ ~has_message
    THEN dropped(eu, "create", <<>>)
    ELSE /\ user_sessions' = IF eu \in DOMAIN user_sessions THEN user_sessions
                             ELSE Put(user_sessions, eu, new_session)
         /\ conversation_context' = Put(conversation_context, eu, new_context)
         /\ sent' = Sent(eu, "create", <<>>, <<fresh_start_message>>)

\* create_command leaving the conversation flow in place
create_command_keeping_flow(eu, has_message) ==
    IF eu = NoUser \/ ~has_message
    THEN dropped(eu, "create", <<>>)
    ELSE /\ user_sessions' = Put(user_sessions, eu, new_session)
         /\ conversation_context' =
                Put(conversation_context, eu,
                    IF eu \in DOMAIN conversation_context
                    THEN [new_context EXCEPT !.conversation_flow =
                             conversation_context[eu].conversation_flow]
                    ELSE new_context)
         /\ sent' = Sent(eu, "create", <<>>, <<fresh_start_message>>)

create_command(eu, has_message) ==
    IF eu = NoUser \/ ~has_message
    THEN dropped(eu, "create", <<>>)
    ELSE /\ user_sessions' = Put(user_sessions, eu, new_session)
         /\ conversation_context' = Put(conversation_context, eu, new_context)
         /\ sent' = Sent(eu, "create", <<>>, <<fresh_start_message>>)

\* status_command creating the session of a user that has none
status_command_creating(eu, has_message) ==
    IF eu = NoUser \/ ~has_message
    THEN dropped(eu, "status", <<>>)
    ELSE /\ sent' = Sent(eu, "status", <<>>,
                 IF eu \notin DOMAIN user_sessions
                 THEN <<no_active_message>>
                 ELSE <<status_text(user_sessions[eu],
                           IF eu \in DOMAIN conversation_context
                           THEN conversation_context[eu] ELSE EmptyDict)>>)
         /\ user_sessions' = IF eu \in DOMAIN user_sessions THEN user_sessions
                             ELSE Put(user_sessions, eu, new_session)
         /\ conversation_context' =
                IF eu \in DOMAIN conversation_context THEN conversation_context
                ELSE Put(conversation_context, eu, new_context)

\* status_command logging its reply in the conversation flow
status_command_logging(eu, has_message) ==
    IF eu = NoUser \/ ~has_message
    THEN dropped(eu, "status", <<>>)
    ELSE /\ sent' = Sent(eu, "status", <<>>,
                 IF eu \notin DOMAIN user_sessions
                 THEN <<no_active_message>>
                 ELSE <<status_text(user_sessions[eu],
                           IF eu \in DOMAIN conversation_context
                           THEN conversation_context[eu] ELSE EmptyDict)>>)
         /\ conversation_context' =
                IF eu \in DOMAIN conversation_context
                THEN [conversation_context EXCEPT ![eu].conversation_flow =
                         Append(@, [type |-> "bot", content |-> <<"status">>])]
                ELSE conversation_context
         /\ UNCHANGED user_sessions

status_command(eu, has_message) ==
    IF eu = NoUser \/ ~has_message
    THEN dropped(eu, "status", <<>>)
    ELSE /\ sent' = Sent(eu, "status", <<>>,
                 IF eu \notin DOMAIN user_sessions
                 THEN <<no_active_message>>
                 ELSE <<status_text(user_sessions[eu],
                           IF eu \in DOMAIN conversation_context
                           THEN conversation_context[eu] ELSE EmptyDict)>>)
         /\ UNCHANGED <<user_sessions, conversation_context>>

\* cancel_command deleting the session and leaving the context
cancel_command_sessions_only(eu, has_message) ==
    IF eu = NoUser \/ ~has_message
    THEN dropped(eu, "cancel", <<>>)
    ELSE /\ user_sessions' = Del(user_sessions, eu)
         /\ conversation_context' = conversation_context
         /\ sent' = Sent(eu, "cancel", <<>>, <<reset_message>>)

\* cancel_command emptying both dictionaries
cancel_command_all(eu, has_message) ==
    IF eu = NoUser \/ ~has_message
    THEN dropped(eu, "cancel", <<>>)
    ELSE /\ user_sessions' = [x \in {} |-> new_session]
         /\ conversation_context' = [x \in {} |-> new_context]
         /\ sent' = Sent(eu, "cancel", <<>>, <<reset_message>>)

cancel_command(eu, has_message) ==
    IF eu = NoUser \/ ~has_message
    THEN dropped(eu, "cancel", <<>>)
    ELSE /\ user_sessions' = Del(user_sessions, eu)
         /\ conversation_context' = Del(conversation_context, eu)
         /\ sent' = Sent(eu, "cancel", <<>>, <<reset_message>>)

\* summary_command dropping the session once the post is sent
summary_command_closing(eu, has_message) ==
    IF eu = NoUser \/ ~has_message
    THEN dropped(eu, "summary", <<>>)
    ELSE IF \/ eu \notin DOMAIN conversation_context
            \/ ~truthy(conversation_context[eu].initial_idea)
    THEN /\ sent' = Sent(eu, "summary", <<>>, <<no_summary_message>>)
         /\ UNCHANGED <<user_sessions, conversation_context>>
    ELSE /\ sent' = Sent(eu, "summary", <<>>,
                 <<creating_message,
                   post_header
                       \o generate_final_content(conversation_context[eu])>>)
         /\ user_sessions' = Del(user_sessions, eu)
         /\ conversation_context' = Del(conversation_context, eu)

\* summary_command testing only that the user has a context
summary_command_unguarded(eu, has_message) ==
    IF eu = NoUser \/ ~has_message
    THEN dropped(eu, "summary", <<>>)
    ELSE /\ sent' = Sent(eu, "summary", <<>>,
                 IF eu \notin DOMAIN conversation_context
                 THEN <<no_summary_message>>
                 ELSE <<creating_message,
                        post_header
                            \o generate_final_content(conversation_context[eu])>>)
         /\ UNCHANGED <<user_sessions, conversation_context>>

\* _generate_final_content only reads the context and builds a string, so
\* the except branch of the handler is never taken.
summary_command(eu, has_message) ==
    IF eu = NoUser \/ ~has_message
    THEN dropped(eu, "summary", <<>>)
    ELSE /\ sent' = Sent(eu, "summary", <<>>,
                 IF \/ eu \notin DOMAIN conversation_context
                    \/ ~truthy(conversation_context[eu].initial_idea)
                 THEN <<no_summary_message>>
                 ELSE <<creating_message,
                        post_header
                            \o generate_final_content(conversation_context[eu])>>)
         /\ UNCHANGED <<user_sessions, conversation_context>>

help_command(eu, has_message) ==
    IF ~has_message
    THEN dropped(eu, "help", <<>>)
    ELSE /\ sent' = Sent(eu, "help", <<>>, <<help_text>>)
         /\ UNCHANGED <<user_sessions, conversation_context>>

\* an entry of conversation_flow always logged as the user's
flow_entry_as_user(type, content) == [type |-> "user", content |-> content]

\* one entry of conversation_flow
flow_entry(type, content) == [type |-> type, content |-> content]

handle_instant_message(eu, has_message, text) ==
    IF eu = NoUser \/ ~has_message \/ text = <<>>
    THEN dropped(eu, "text", text)
    ELSE LET message_text == strip(text)
             known == eu \in DOMAIN user_sessions
             session == IF known THEN user_sessions[eu] ELSE new_session
             context == IF known THEN conversation_context[eu] ELSE new_context
             heard == [context EXCEPT !.conversation_flow =
                          Append(@, flow_entry("user", message_text))]
             r == generate_instant_response(session, heard, message_text)
             answered == [r.context EXCEPT !.conversation_flow =
                             Append(@, flow_entry("bot", r.response))]
         IN  /\ user_sessions' = Put(user_sessions, eu, r.session)
             /\ conversation_context' = Put(conversation_context, eu, answered)
             /\ sent' = Sent(eu, "text", text, <<r.response>>)

---------------------------------------------------------------------------
(* ConversationPerformanceMonitor *)

MonUsers == {1, 2}
Questions == {<<"q1">>, <<"q2">>}
Responses == {<<"r">>}

RECURSIVE gcd(_, _)
gcd(a, b) == IF b = 0 THEN a ELSE gcd(b, a % b)

\* a / b of two numbers, b positive
div(a, b) == [num |-> a \div gcd(a, b), den |-> b \div gcd(a, b)]

RECURSIVE sum(_)
sum(xs) == IF xs = <<>> THEN 0 ELSE Head(xs) + sum(Tail(xs))

min(xs) == CHOOSE x \in {xs[i] : i \in 1..Len(xs)} :
               \A i \in 1..Len(xs) : x <= xs[i]

max(xs) == CHOOSE x \in {xs[i] : i \in 1..Len(xs)} :
               \A i \in 1..Len(xs) : x >= xs[i]

\* deque(maxlen=100)
maxlen == 100

\* deque.append keeping the oldest maxlen items
deque_append_keeping_oldest(q, x) ==
    IF Len(q) < maxlen THEN Append(q, x) ELSE q

\* deque.append(x) on a deque of maxlen items at most: a full deque
\* discards its leftmost item
deque_append(q, x) ==
    IF Len(q) < maxlen THEN Append(q, x) ELSE Append(Tail(q), x)

new_metrics ==
    [questions        |-> <<>>,
     response_times   |-> <<>>,
     timeouts         |-> 0,
     current_question |-> None]

new_global_metrics ==
    [total_questions   |-> 0,
     total_responses   |-> 0,
     timeouts          |-> 0,
     avg_response_time |-> div(0, 1),
     response_times    |-> <<>>]

\* the call made last: the method, its user_id and the value returned
\* (None, or Some(value))
Returned(op, user_id, value) == [op |-> op, user_id |-> user_id, value |-> value]

\* start_question counting a question left pending as a timeout
start_question_counting_timeout(user_id, question) ==
    LET known == IF user_id \in DOMAIN metrics
                 THEN metrics
                 ELSE Put(metrics, user_id, new_metrics)
        pending == known[user_id].current_question # None
    IN  /\ metrics' =
               [known EXCEPT ![user_id] =
                   [@ EXCEPT !.timeouts = IF pending THEN @ + 1 ELSE @,
                             !.current_question =
                                 Some([question   |-> question,
                                       start_time |-> now,
                                       timestamp  |-> now])]]
        /\ global_metrics' =
               [global_metrics EXCEPT !.total_questions = @ + 1,
                                      !.timeouts = IF pending THEN @ + 1 ELSE @]
        /\ returned' = Returned("start_question", user_id, None)
        /\ UNCHANGED now

start_question(user_id, question) ==
    LET known == IF user_id \in DOMAIN metrics
                 THEN metrics
                 ELSE Put(metrics, user_id, new_metrics)
    IN  /\ metrics' =
               [known EXCEPT ![user_id].current_question =
                   Some([question   |-> question,
                         start_time |-> now,
                         timestamp  |-> now])]
        /\ global_metrics' =
               [global_metrics EXCEPT !.total_questions = @ + 1]
        /\ returned' = Returned("start_question", user_id, None)
        /\ UNCHANGED now

update_average_response_time(g) ==
    IF g.response_times # <<>>
    THEN [g EXCEPT !.avg_response_time =
             div(sum(g.response_times), Len(g.response_times))]
    ELSE g

\* record_response leaving the question pending
recorded_keeping_question(user_id, response) ==
    LET current_q     == metrics[user_id].current_question[1]
        response_time == now - current_q.start_time
    IN  /\ metrics' =
               [metrics EXCEPT ![user_id] =
                   [@ EXCEPT !.questions =
                                 Append(@, [question      |-> current_q.question,
                                            response      |-> response,
                                            response_time |-> response_time,
                                            timestamp     |-> current_q.timestamp]),
                             !.response_times = Append(@, response_time)]]
        /\ global_metrics' =
               update_average_response_time(
                   [global_metrics EXCEPT
                       !.total_responses = @ + 1,
                       !.response_times = deque_append(@, response_time)])
        /\ returned' = Returned("record_response", user_id, Some(response_time))
        /\ UNCHANGED now

\* what record_response does with a pending question
recorded(user_id, response) ==
    LET current_q     == metrics[user_id].current_question[1]
        response_time == now - current_q.start_time
    IN  /\ metrics' =
               [metrics EXCEPT ![user_id] =
                   [@ EXCEPT !.questions =
                                 Append(@, [question      |-> current_q.question,
                                            response      |-> response,
                                            response_time |-> response_time,
                                            timestamp     |-> current_q.timestamp]),
                             !.response_times = Append(@, response_time),
                             !.current_question = None]]
        /\ global_metrics' =
               update_average_response_time(
                   [global_metrics EXCEPT
                       !.total_responses = @ + 1,
                       !.response_times = deque_append(@, response_time)])
        /\ returned' = Returned("record_response", user_id, Some(response_time))
        /\ UNCHANGED now

\* record_response counting a response that answers no question
record_response_counting(user_id, response) ==
    IF user_id \notin DOMAIN metrics \/ metrics[user_id].current_question = None
    THEN /\ returned' = Returned("record_response", user_id, Some(0))
         /\ global_metrics' = [global_metrics EXCEPT !.total_responses = @ + 1]
         /\ UNCHANGED <<metrics, now>>
    ELSE recorded(user_id, response)

record_response(user_id, response) ==
    IF user_id \notin DOMAIN metrics \/ metrics[user_id].current_question = None
    THEN /\ returned' = Returned("record_response", user_id, Some(0))
         /\ UNCHANGED <<metrics, global_metrics, now>>
    ELSE recorded(user_id, response)

\* record_timeout creating the entry of a user that has none
record_timeout_creating(user_id) ==
    LET known == IF user_id \in DOMAIN metrics
                 THEN metrics
                 ELSE Put(metrics, user_id, new_metrics)
    IN  /\ metrics' = [known EXCEPT ![user_id] =
                           [@ EXCEPT !.timeouts = @ + 1,
                                     !.current_question = None]]
        /\ global_metrics' = [global_metrics EXCEPT !.timeouts = @ + 1]
        /\ returned' = Returned("record_timeout", user_id, None)
        /\ UNCHANGED now

record_timeout(user_id) ==
    /\ metrics' =
           IF user_id \in DOMAIN metrics
           THEN [metrics EXCEPT ![user_id] =
                    [@ EXCEPT !.timeouts = @ + 1,
                              !.current_question = None]]
           ELSE metrics
    /\ global_metrics' = [global_metrics EXCEPT !.timeouts = @ + 1]
    /\ returned' = Returned("record_timeout", user_id, None)
    /\ UNCHANGED now

\* the dict get_user_stats returns; the literal 0 of 'avg_response_time'
\* is the fraction 0/1
user_stats(user_id) ==
    IF user_id \notin DOMAIN metrics
    THEN EmptyDict
    ELSE LET user_data      == metrics[user_id]
             response_times == user_data.response_times
         IN  IF response_times = <<>>
             THEN [total_questions   |-> 0,
                   avg_response_time |-> div(0, 1),
                   timeouts          |-> user_data.timeouts]
             ELSE [total_questions   |-> Len(user_data.questions),
                   avg_response_time |-> div(sum(response_times), Len(response_times)),
                   min_response_time |-> min(response_times),
                   max_response_time |-> max(response_times),
                   timeouts          |-> user_data.timeouts,
                   timeout_rate      |->
                       div(user_data.timeouts,
                           Len(user_data.questions) + user_data.timeouts)]

get_user_stats(user_id) ==
    /\ returned' = Returned("get_user_stats", user_id, Some(user_stats(user_id)))
    /\ UNCHANGED <<metrics, global_metrics, now>>

\* target_response_time: float = 2.0
target_response_time == 2

\* get_global_stats reporting a full response rate before any question
global_stats_idle_full ==
    [total_questions   |-> global_metrics.total_questions,
     total_responses   |-> global_metrics.total_responses,
     total_timeouts    |-> global_metrics.timeouts,
     avg_response_time |-> global_metrics.avg_response_time,
     response_rate     |->
         IF global_metrics.total_questions > 0
         THEN div(global_metrics.total_responses, global_metrics.total_questions)
         ELSE div(1, 1)]

\* the dict get_global_stats returns; the literal 0 of 'response_rate' is
\* the fraction 0/1
global_stats ==
    [total_questions   |-> global_metrics.total_questions,
     total_responses   |-> global_metrics.total_responses,
     total_timeouts    |-> global_metrics.timeouts,
     avg_response_time |-> global_metrics.avg_response_time,
     response_rate     |->
         IF global_metrics.total_questions > 0
         THEN div(global_metrics.total_responses, global_metrics.total_questions)
         ELSE div(0, 1)]

get_global_stats ==
    /\ returned' = Returned("get_global_stats", NoUser, Some(global_stats))
    /\ UNCHANGED <<metrics, global_metrics, now>>

\* f"{x:.1f}" of a fraction that is not negative: rounded to one decimal,
\* a tie to the even digit (the error of the binary representation of x
\* is left out)
fmt1(x) ==
    LET q      == (10 * x.num) \div x.den
        r      == (10 * x.num) % x.den
        tenths == IF 2 * r > x.den \/ (2 * r = x.den /\ q % 2 = 1)
                  THEN q + 1 ELSE q
    IN  <<ToString(tenths \div 10), ".", ToString(tenths % 10)>>

\* the lines get_optimization_suggestions appends (the warning and check
\* mark emoji are written as words)
slow_suggestions(avg) ==
    << <<"(warning) Average response time (">> \o fmt1(avg)
           \o <<"s) is too high. Consider:">>,
       <<"  - Shortening questions to be more concise">>,
       <<"  - Reducing timeout to 15-20 seconds">>,
       <<"  - Pre-caching common responses">> >>

timeout_suggestions ==
    << <<"(warning) High timeout rate detected. Consider:">>,
       <<"  - Making questions clearer and easier to answer">>,
       <<"  - Adding quick response suggestions">>,
       <<"  - Implementing smart defaults for no response">> >>

rate_suggestions ==
    << <<"(warning) Low response rate. Consider:">>,
       <<"  - Improving question engagement">>,
       <<"  - Adding context to questions">>,
       <<"  - Making the conversation more interactive">> >>

optimal_suggestions ==
    << <<"(check) Performance is optimal! Keep up the good work.">> >>

\* a < b of two fractions
less(a, b) == a.num * b.den < b.num * a.den

\* the list get_optimization_suggestions returns for the dict stats.
\* total_responses * 0.2 and the literal 0.8 are the fractions 1/5 and 4/5:
\* the rounding of the floats changes no comparison with counts this small
optimization_suggestions(stats) ==
    LET slow     == IF less(div(target_response_time * 2, 1), stats.avg_response_time)
                    THEN slow_suggestions(stats.avg_response_time) ELSE <<>>
        timeouts == IF less(div(stats.total_responses, 5), div(stats.total_timeouts, 1))
                    THEN timeout_suggestions ELSE <<>>
        rate     == IF less(stats.response_rate, div(4, 5))
                    THEN rate_suggestions ELSE <<>>
        suggestions == slow \o timeouts \o rate
    IN  IF suggestions = <<>> THEN optimal_suggestions ELSE suggestions

get_optimization_suggestions ==
    /\ returned' = Returned("get_optimization_suggestions", NoUser,
                            Some(optimization_suggestions(global_stats)))
    /\ UNCHANGED <<metrics, global_metrics, now>>

\* time passes
tick ==
    /\ now' = now + 1
    /\ UNCHANGED <<metrics, global_metrics, returned>>

---------------------------------------------------------------------------
(* The handlers as coroutines.  A handler runs until an await suspends it; *)
(* other handlers run before it is resumed.                                *)

\* await self._generate_instant_response(...) suspending the handler
generate_instant_response_yielding == TRUE

\* whether await self._generate_instant_response(...) suspends the
\* handler: the coroutine and the _ask_strategic_question it awaits await
\* no future, so the await returns without a switch to the event loop
generate_instant_response_suspends == FALSE

\* a handler suspended at an await: its user, its stripped text and the
\* await ("generate": line 285, "reply_text": the reply_text call)
Suspended(eu, message_text, at) ==
    [user |-> eu, text |-> message_text, at |-> at]

\* handle_instant_message up to its first await that suspends
handle_instant_message_begin(eu, text) ==
    IF generate_instant_response_suspends
    THEN LET message_text == strip(text)
             known == eu \in DOMAIN user_sessions
             session == IF known THEN user_sessions[eu] ELSE new_session
             context == IF known THEN conversation_context[eu] ELSE new_context
             heard == [context EXCEPT !.conversation_flow =
                          Append(@, flow_entry("user", message_text))]
         IN  /\ user_sessions' = Put(user_sessions, eu, session)
             /\ conversation_context' = Put(conversation_context, eu, heard)
             /\ in_flight' = in_flight \cup {Suspended(eu, message_text, "generate")}
             /\ UNCHANGED sent
    ELSE /\ handle_instant_message(eu, TRUE, text)
         /\ in_flight' = in_flight \cup {Suspended(eu, strip(text), "reply_text")}

\* cancel_command up to its await of reply_text
cancel_command_begin(eu) ==
    /\ cancel_command(eu, TRUE)
    /\ in_flight' = in_flight \cup {Suspended(eu, <<>>, "reply_text")}

\* the event loop resumes the suspended handler h: after reply_text the
\* handler returns; after "generate" it runs on to reply_text, or ends
\* with the KeyError of a user whose dictionaries were deleted
resume(h) ==
    IF h.at = "reply_text"
    THEN /\ in_flight' = in_flight \ {h}
         /\ UNCHANGED bot_vars
    ELSE IF h.user \notin DOMAIN user_sessions
    THEN /\ in_flight' = in_flight \ {h}
         /\ UNCHANGED bot_vars
    ELSE LET r == generate_instant_response(user_sessions[h.user],
                                           conversation_context[h.user], h.text)
             answered == [r.context EXCEPT !.conversation_flow =
                             Append(@, flow_entry("bot", r.response))]
         IN  /\ user_sessions' = Put(user_sessions, h.user, r.session)
             /\ conversation_context' = Put(conversation_context, h.user, answered)
             /\ sent' = Sent(h.user, "text", h.text, <<r.response>>)
             /\ in_flight' = (in_flight \ {h})
                                \cup {Suspended(h.user, h.text, "reply_text")}

---------------------------------------------------------------------------
(* HumanInputTool *)

fallback_reply == <<"Let's move forward with the next question.">>

\* the response caches set_response_cache is called with
Caches == { EmptyDict, [question \in {<<"q1">>} |-> <<"cached">>] }

\* what the input handler does when called: it returns a text or raises
\* an Exception
HandlerOutcomes ==
    { [raised |-> FALSE, response |-> <<"r">>],
      [raised |-> TRUE, response |-> <<>>] }

history_entry(type, content) == [type |-> type, content |-> content]

\* the _run call made last
Ran(question, handled, raised, result) ==
    [question |-> question, handled |-> handled, raised |-> raised,
     result |-> result]

\* _run calling the input handler whatever the cache holds
run_uncached(question) ==
    LET asked == Append(conversation_history,
                        history_entry("agent_question", question))
    IN  /\ \E outcome \in HandlerOutcomes :
              IF outcome.raised
              THEN /\ conversation_history' = asked
                   /\ ran' = Ran(question, TRUE, TRUE, fallback_reply)
              ELSE /\ conversation_history' =
                          Append(asked, history_entry("human_response",
                                                      outcome.response))
                   /\ ran' = Ran(question, TRUE, FALSE, outcome.response)
        /\ UNCHANGED response_cache

\* _run(question)
run(question) ==
    LET asked == Append(conversation_history,
                        history_entry("agent_question", question))
    IN  /\ IF question \in DOMAIN response_cache
           THEN /\ conversation_history' =
                       Append(asked, history_entry("human_response",
                                                   response_cache[question]))
                /\ ran' = Ran(question, FALSE, FALSE, response_cache[question])
           ELSE \E outcome \in HandlerOutcomes :
                   IF outcome.raised
                   THEN /\ conversation_history' = asked
                        /\ ran' = Ran(question, TRUE, TRUE, fallback_reply)
                   ELSE /\ conversation_history' =
                               Append(asked, history_entry("human_response",
                                                           outcome.response))
                        /\ ran' = Ran(question, TRUE, FALSE, outcome.response)
        /\ UNCHANGED response_cache

set_response_cache(cache) ==
    /\ response_cache' = cache
    /\ UNCHANGED <<conversation_history, ran>>

clear_conversation_history ==
    /\ conversation_history' = <<>>
    /\ UNCHANGED <<response_cache, ran>>

---------------------------------------------------------------------------
(* The specifications *)

NoDict == [u \in {} |-> new_session]

Init ==
    /\ user_sessions = NoDict
    /\ conversation_context = NoDict
    /\ sent = Sent(NoUser, "none", <<>>, <<>>)
    /\ metrics = NoDict
    /\ global_metrics = new_global_metrics
    /\ now = 0
    /\ returned = Returned("none", NoUser, None)
    /\ in_flight = {}
    /\ conversation_history = <<>>
    /\ response_cache = EmptyDict
    /\ ran = Ran(<<>>, FALSE, FALSE, <<>>)

\* the messages the conversation of eu has handled
turns(eu) ==
    IF eu \in DOMAIN conversation_context
    THEN Len(conversation_context[eu].conversation_flow) \div 2
    ELSE 0

Next ==
    /\ UNCHANGED <<monitor_vars, in_flight, tool_vars>>
    /\ \E eu \in Users \cup {NoUser}, has_message \in BOOLEAN :
        \/ start_command(eu, has_message)
        \/ create_command(eu, has_message)
        \/ status_command(eu, has_message)
        \/ cancel_command(eu, has_message)
        \/ summary_command(eu, has_message)
        \/ help_command(eu, has_message)
        \/ \E text \in RawTexts :
              /\ turns(eu) < MaxTurns
              /\ handle_instant_message(eu, has_message, text)

Spec == Init /\ [][Next]_vars

\* One user and long conversations.
LongUsers == {1}

NextLong ==
    /\ UNCHANGED <<monitor_vars, in_flight, tool_vars>>
    /\ \E eu \in LongUsers :
        \/ start_command(eu, TRUE)
        \/ create_command(eu, TRUE)
        \/ status_command(eu, TRUE)
        \/ cancel_command(eu, TRUE)
        \/ summary_command(eu, TRUE)
        \/ \E text \in LongTexts :
              /\ turns(eu) < MaxTurnsLong
              /\ handle_instant_message(eu, TRUE, text)

SpecLong == Init /\ [][NextLong]_vars

\* One user and messages of every style, one of them of DetailedWords words.
detailed_text ==
    [i \in 1..(2 * DetailedWords - 1) |-> IF i % 2 = 1 THEN "a" ELSE " "]

StyleTexts == { <<"a">>, <<"Yeah", " ", "Hey", "!">>, <<"a", "!">>, detailed_text }

NextStyle ==
    /\ UNCHANGED <<monitor_vars, in_flight, tool_vars>>
    /\ \E eu \in LongUsers :
        \/ create_command(eu, TRUE)
        \/ cancel_command(eu, TRUE)
        \/ status_command(eu, TRUE)
        \/ summary_command(eu, TRUE)
        \/ \E text \in StyleTexts :
              /\ turns(eu) < MaxTurnsStyle
              /\ handle_instant_message(eu, TRUE, text)

SpecStyle == Init /\ [][NextStyle]_vars

\* The monitor called by any caller, for two users.
NextMon ==
    /\ UNCHANGED <<bot_vars, in_flight, tool_vars>>
    /\ \/ \E user_id \in MonUsers, question \in Questions :
              /\ global_metrics.total_questions < MaxQuestions
              /\ start_question(user_id, question)
       \/ \E user_id \in MonUsers, response \in Responses :
              record_response(user_id, response)
       \/ \E user_id \in MonUsers :
              /\ global_metrics.timeouts < MaxTimeouts
              /\ record_timeout(user_id)
       \/ \E user_id \in MonUsers :
              get_user_stats(user_id)
       \/ /\ now < MaxClock
          /\ tick

SpecMon == Init /\ [][NextMon]_vars

\* The monitor called for one user, one question after the other, with
\* more responses than the deque holds.
NextWindow ==
    /\ UNCHANGED <<bot_vars, in_flight, tool_vars>>
    /\ \E user_id \in LongUsers :
          \/ \E question \in {<<"q1">>} :
                /\ global_metrics.total_questions < MaxWindowQuestions
                /\ user_id \in DOMAIN metrics
                       => metrics[user_id].current_question = None
                /\ start_question(user_id, question)
          \/ \E response \in Responses :
                record_response(user_id, response)
          \/ /\ now < MaxSlow
             /\ global_metrics.total_questions <= MaxSlow
             /\ tick

SpecWindow == Init /\ [][NextWindow]_vars

\* The monitor called for one user, with responses slower than twice the
\* target, and asked for its statistics and suggestions.
NextSuggest ==
    /\ UNCHANGED <<bot_vars, in_flight, tool_vars>>
    /\ \/ \E user_id \in LongUsers :
              \/ \E question \in {<<"q1">>} :
                    /\ global_metrics.total_questions < MaxSuggestQuestions
                    /\ start_question(user_id, question)
              \/ \E response \in Responses :
                    record_response(user_id, response)
              \/ /\ global_metrics.timeouts < MaxTimeouts
                 /\ record_timeout(user_id)
       \/ get_global_stats
       \/ get_optimization_suggestions
       \/ /\ now < MaxSuggestClock
          /\ tick

SpecSuggest == Init /\ [][NextSuggest]_vars

\* The bot with one user beside a monitor that any caller calls for two
\* users.
NextPair ==
    \/ /\ UNCHANGED <<monitor_vars, in_flight, tool_vars>>
       /\ \E eu \in LongUsers :
             \/ start_command(eu, TRUE)
             \/ cancel_command(eu, TRUE)
             \/ \E text \in {<<"a">>} :
                   /\ turns(eu) < MaxTurns
                   /\ handle_instant_message(eu, TRUE, text)
    \/ /\ UNCHANGED <<bot_vars, in_flight, tool_vars>>
       /\ \/ \E user_id \in MonUsers, question \in {<<"q1">>} :
                 /\ global_metrics.total_questions < MaxQuestions
                 /\ start_question(user_id, question)
          \/ \E user_id \in MonUsers, response \in Responses :
                 record_response(user_id, response)
          \/ \E user_id \in MonUsers :
                 /\ global_metrics.timeouts < MaxTimeouts
                 /\ record_timeout(user_id)
          \/ \E user_id \in MonUsers :
                 get_user_stats(user_id)
          \/ get_global_stats
          \/ get_optimization_suggestions

SpecPair == Init /\ [][NextPair]_vars

\* The text and cancel handlers of one user as coroutines.
NextAsync ==
    /\ UNCHANGED <<monitor_vars, tool_vars>>
    /\ \/ \E eu \in LongUsers :
              \/ \E text \in LongTexts :
                    /\ turns(eu) < MaxTurns
                    /\ Cardinality(in_flight) < MaxInFlight
                    /\ handle_instant_message_begin(eu, text)
              \/ /\ Cardinality(in_flight) < MaxInFlight
                 /\ cancel_command_begin(eu)
       \/ \E h \in in_flight : resume(h)

SpecAsync == Init /\ [][NextAsync]_vars

\* HumanInputTool called by an agent.
NextTool ==
    /\ UNCHANGED <<bot_vars, monitor_vars, in_flight>>
    /\ \/ \E question \in Questions :
              /\ Len(conversation_history) < MaxHistory
              /\ run(question)
       \/ \E cache \in Caches : set_response_cache(cache)
       \/ clear_conversation_history

SpecTool == Init /\ [][NextTool]_vars

---------------------------------------------------------------------------
(* What the properties below read *)

\* the update handled last was a text message of u and was answered
answered_text(u) ==
    /\ sent.user = u
    /\ sent.command = "text"
    /\ sent.replies # <<>>
    /\ u \in DOMAIN conversation_context

\* the update handled last was the command of u and was answered
answered_command(u, command) ==
    /\ sent.user = u
    /\ sent.command = command
    /\ sent.replies # <<>>

flow_of(u) == conversation_context[u].conversation_flow

\* no message of the conversation of u was empty once stripped
substantive(u) ==
    \A i \in 1..Len(flow_of(u)) :
        flow_of(u)[i].type = "user" => flow_of(u)[i].content # <<>>

\* the area a logged question asks about: "initial_idea" for the question
\* of the is_first branch
category_of(question) ==
    IF \E i \in 1..Len(areas_needed) : areas_needed[i].question = question
    THEN areas_needed[CHOOSE i \in 1..Len(areas_needed) :
                          areas_needed[i].question = question].area
    ELSE "initial_idea"

area_question(area) ==
    areas_needed[CHOOSE i \in 1..Len(areas_needed) :
                     areas_needed[i].area = area].question

---------------------------------------------------------------------------
(* C1 *)

\* C1 as stated: after the first message of a fresh session is handled,
\* initial_idea is the text of the message verbatim, status is
\* brainstorming, responses_given is empty and the style is untouched.
C1_Verbatim ==
    \A u \in Users :
        (answered_text(u) /\ Len(flow_of(u)) = 2) =>
            /\ conversation_context[u].initial_idea = Some(sent.text)
            /\ user_sessions[u].status = "brainstorming"
            /\ conversation_context[u].responses_given = <<>>
            /\ conversation_context[u].user_writing_style = EmptyDict

\* C1 amended: after the first message of a fresh session is handled,
\* initial_idea is the text of the message with its leading and trailing
\* whitespace removed, status is brainstorming, responses_given is empty
\* and the style is untouched.
C1_IdeaCapture ==
    \A u \in Users :
        (answered_text(u) /\ Len(flow_of(u)) = 2) =>
            /\ conversation_context[u].initial_idea = Some(strip(sent.text))
            /\ user_sessions[u].status = "brainstorming"
            /\ conversation_context[u].responses_given = <<>>
            /\ conversation_context[u].user_writing_style = EmptyDict

\* a first message whose text str.strip() changes has been handled
C1_Witness ==
    \E u \in Users :
        /\ answered_text(u)
        /\ Len(flow_of(u)) = 2
        /\ strip(sent.text) # sent.text
        /\ strip(sent.text) # <<>>
        /\ conversation_context[u].initial_idea = Some(strip(sent.text))

---------------------------------------------------------------------------
(* C2 *)

\* C2 as stated: in a conversation with no reset and no message that is
\* empty once stripped, the reply to the idea message plus exactly 6
\* further messages is the ready prompt, the reply to the idea plus fewer
\* is a question, and the reply to the idea plus more is the ready prompt
\* again.
C2_Termination ==
    \A u \in Users :
        (answered_text(u) /\ substantive(u)) =>
            LET replies == Len(flow_of(u)) \div 2 - 1
            IN  (sent.replies[1] = ready_prompt) <=> (replies >= 6)

---------------------------------------------------------------------------
(* C3 *)

\* C3: the areas in focus_areas_covered are always the first k of
\* audience, hook_style, personal_story, unique_angle, key_message,
\* writing_style, and the questions logged after the idea questions are
\* the questions of these k areas in that order, whatever the replies.
C3_FixedOrder ==
    \A u \in DOMAIN conversation_context :
        LET context == conversation_context[u]
            areas == context.focus_areas_covered \ {"initial_idea"}
            k == Cardinality(areas)
            asked == context.questions_asked
            first == Len(asked) - k
        IN  /\ areas = {areas_needed[i].area : i \in 1..k}
            /\ first >= 0
            /\ \A i \in 1..Len(asked) :
                  IF i <= first
                  THEN category_of(asked[i]) = "initial_idea"
                  ELSE asked[i] = areas_needed[i - first].question

\* all six areas have been covered
C3_Witness ==
    \E u \in DOMAIN conversation_context :
        /\ Cardinality(conversation_context[u].focus_areas_covered) = 7
        /\ Len(conversation_context[u].questions_asked) = 7

---------------------------------------------------------------------------
(* C4 *)

\* C4 as stated: a text message never removes an area from
\* focus_areas_covered, and no two questions of questions_asked are about
\* the same category.
C4_NoRepeat ==
    [][\A u \in Users :
          (answered_text(u)' /\ u \in DOMAIN conversation_context) =>
              LET asked == conversation_context'[u].questions_asked
              IN  /\ conversation_context[u].focus_areas_covered
                         \subseteq conversation_context'[u].focus_areas_covered
                  /\ \A i, j \in 1..Len(asked) :
                        category_of(asked[i]) = category_of(asked[j]) => i = j]_vars

---------------------------------------------------------------------------
(* C5 *)

\* C5 as stated: when the idea message and one reply (neither empty once
\* stripped) have been handled, the first question logged is the audience
\* question of the is_first branch, focus_areas_covered is
\* {initial_idea, audience}, and the reply just sent is the hook_style
\* question.
C5_HookAfterAudience ==
    \A u \in Users :
        (/\ answered_text(u)
         /\ Len(flow_of(u)) = 4
         /\ substantive(u)) =>
            /\ flow_of(u)[2].content = first_question(flow_of(u)[1].content)
            /\ conversation_context[u].focus_areas_covered
                   = {"initial_idea", "audience"}
            /\ sent.replies[1] = area_question("hook_style")

---------------------------------------------------------------------------
(* C6 *)

\* C6: every session's questions_asked counter equals the length of the
\* questions_asked list of the user's context.
C6_CountIsLogLength ==
    \A u \in DOMAIN user_sessions :
        /\ u \in DOMAIN conversation_context
        /\ user_sessions[u].questions_asked
               = Len(conversation_context[u].questions_asked)

\* a session with two questions asked while another user has a session
C6_Witness ==
    \E u, v \in DOMAIN user_sessions :
        /\ u # v
        /\ user_sessions[u].questions_asked = 2
        /\ Len(conversation_context[u].questions_asked) = 2
        /\ user_sessions[v].questions_asked = 0

---------------------------------------------------------------------------
(* C7 *)

\* the summary command of u produced the post
summarized(u) ==
    /\ answered_command(u, "summary")
    /\ Len(sent.replies) = 2

---------------------------------------------------------------------------
(* C8 *)

\* C8: a summary command of a user who has a session with no idea set is
\* answered by the nothing-to-summarize message alone and changes neither
\* dictionary.
C8_NothingToSummarize ==
    [][\A u \in Users :
          (/\ answered_command(u, "summary")'
           /\ u \in DOMAIN conversation_context
           /\ conversation_context[u].initial_idea = None) =>
              /\ sent'.replies = <<no_summary_message>>
              /\ user_sessions' = user_sessions
              /\ conversation_context' = conversation_context]_vars

\* the summary command of a user with a session and no idea was refused
C8_Witness ==
    \E u \in DOMAIN user_sessions :
        /\ answered_command(u, "summary")
        /\ conversation_context[u].initial_idea = None
        /\ sent.replies = <<no_summary_message>>

---------------------------------------------------------------------------
(* C9 *)

Rank(status) ==
    CASE status = "ready"        -> 0
      [] status = "brainstorming" -> 1
      [] status = "complete"      -> 2

\* the step is an answered start or create command of u
reset_step(u) ==
    answered_command(u, "start")' \/ answered_command(u, "create")'

\* C9: a step changes the status of a session only forward along ready,
\* brainstorming, complete, unless it is a start or create command of that
\* user; and every start or create command leaves the user with the
\* session and the context a new user gets (no idea, no areas, no
\* questions, no responses, no style, no flow, counter 0).
C9_ForwardOrReset ==
    [][\A u \in Users :
          /\ (/\ u \in DOMAIN user_sessions
              /\ u \in DOMAIN user_sessions'
              /\ ~reset_step(u)) =>
                 Rank(user_sessions[u].status) <= Rank(user_sessions'[u].status)
          /\ reset_step(u) =>
                 /\ u \in DOMAIN user_sessions'
                 /\ u \in DOMAIN conversation_context'
                 /\ user_sessions'[u] = new_session
                 /\ conversation_context'[u] = new_context]_vars

\* a create command has reset a session while the other user is brainstorming
C9_Witness ==
    \E u, v \in DOMAIN user_sessions :
        /\ answered_command(u, "create")
        /\ user_sessions[u].status = "ready"
        /\ conversation_context[u] = new_context
        /\ user_sessions[v].status = "brainstorming"

---------------------------------------------------------------------------
(* C10 *)

\* C10 as stated: in a conversation, initial_idea is the text of the
\* first message handled, and every later message is in responses_given.
C10_IdeaOnce ==
    \A u \in DOMAIN conversation_context :
        flow_of(u) # <<>> =>
            /\ conversation_context[u].initial_idea = Some(flow_of(u)[1].content)
            /\ Len(conversation_context[u].responses_given)
                   = Len(flow_of(u)) \div 2 - 1

---------------------------------------------------------------------------
(* C11 *)

\* the message handled last was stored as a response of u
answered_reply(u) ==
    /\ answered_text(u)
    /\ conversation_context[u].responses_given # <<>>

last_response(u) ==
    conversation_context[u].responses_given[
        Len(conversation_context[u].responses_given)]

StyleDimensions == {"tone", "length", "enthusiasm", "formality"}

\* C11: after a message is handled as a reply, user_writing_style has the
\* four dimensions and each holds the indicator of that reply (the stripped
\* text of the message), whatever the replies before it were.
C11_LastReplyWins ==
    \A u \in Users :
        answered_reply(u) =>
            /\ last_response(u) = strip(sent.text)
            /\ DOMAIN conversation_context[u].user_writing_style = StyleDimensions
            /\ \A k \in StyleDimensions :
                  conversation_context[u].user_writing_style[k]
                      = style_indicators(last_response(u))[k]

\* the reply handled last differs from the reply before it in all four
\* dimensions
C11_Witness ==
    \E u \in Users :
        /\ answered_reply(u)
        /\ Len(conversation_context[u].responses_given) >= 2
        /\ LET responses == conversation_context[u].responses_given
               before == style_indicators(responses[Len(responses) - 1])
           IN  \A k \in StyleDimensions :
                  /\ before[k] # style_indicators(last_response(u))[k]
                  /\ conversation_context[u].user_writing_style[k]
                         = style_indicators(last_response(u))[k]

---------------------------------------------------------------------------
(* C12 *)

\* what a first message of stripped text x leaves a user with no session
first_contact_session == [status |-> "brainstorming", questions_asked |-> 1]

first_contact_context(x) ==
    [initial_idea        |-> Some(x),
     questions_asked     |-> <<first_question(x)>>,
     responses_given     |-> <<>>,
     focus_areas_covered |-> {"initial_idea"},
     user_writing_style  |-> EmptyDict,
     conversation_flow   |-> <<[type |-> "user", content |-> x],
                               [type |-> "bot", content |-> first_question(x)]>>]

\* C12: a text message handled right after a start or create command of
\* the user leaves the session, the context and the reply that the same
\* message leaves for a user with no session.
C12_ResetIsFirstContact ==
    [][\A u \in Users :
          (/\ answered_text(u)'
           /\ \/ u \notin DOMAIN user_sessions
              \/ answered_command(u, "start")
              \/ answered_command(u, "create")) =>
              /\ user_sessions'[u] = first_contact_session
              /\ conversation_context'[u] = first_contact_context(strip(sent'.text))
              /\ sent'.replies = <<first_question(strip(sent'.text))>>]_vars

\* a first message has been handled while the other user is in a
\* conversation with a reply
C12_Witness ==
    \E u, v \in DOMAIN user_sessions :
        /\ u # v
        /\ answered_text(u)
        /\ strip(sent.text) # <<>>
        /\ conversation_context[u] = first_contact_context(strip(sent.text))
        /\ conversation_context[v].responses_given # <<>>

---------------------------------------------------------------------------
(* C13 *)

\* C13: a cancel command leaves its user in neither dictionary and the
\* other users as they were, is answered by the reset message, and changes
\* neither dictionary when the user was in none (so a second cancel changes
\* nothing).
C13_CancelIdempotent ==
    [][\A u \in Users :
          answered_command(u, "cancel")' =>
              /\ u \notin DOMAIN user_sessions'
              /\ u \notin DOMAIN conversation_context'
              /\ sent'.replies = <<reset_message>>
              /\ DOMAIN user_sessions' = DOMAIN user_sessions \ {u}
              /\ DOMAIN conversation_context' = DOMAIN conversation_context \ {u}
              /\ \A v \in DOMAIN user_sessions' :
                    /\ user_sessions'[v] = user_sessions[v]
                    /\ conversation_context'[v] = conversation_context[v]
              /\ (u \notin DOMAIN user_sessions /\ u \notin DOMAIN conversation_context)
                    => /\ user_sessions' = user_sessions
                       /\ conversation_context' = conversation_context]_vars

\* a cancel was answered, its user has no session and the other user has
\* a conversation
C13_Witness ==
    \E u \in Users, v \in DOMAIN user_sessions :
        /\ answered_command(u, "cancel")
        /\ u \notin DOMAIN user_sessions
        /\ u \notin DOMAIN conversation_context
        /\ user_sessions[v].status = "brainstorming"

---------------------------------------------------------------------------
(* C14 *)

\* C14 as stated: a start or create command of a user with no session
\* leaves the user with no session.
C14_ResetNoOp ==
    [][\A u \in Users :
          (reset_step(u) /\ u \notin DOMAIN user_sessions) =>
              u \notin DOMAIN user_sessions']_vars

\* C14 amended: a start or create command of a user with no session
\* creates the session and the context a new user gets (status ready,
\* no idea, nothing asked or answered) and leaves the other users as they
\* were.
C14_ResetCreates ==
    [][\A u \in Users :
          (reset_step(u) /\ u \notin DOMAIN user_sessions) =>
              /\ DOMAIN user_sessions' = DOMAIN user_sessions \cup {u}
              /\ DOMAIN conversation_context' = DOMAIN conversation_context \cup {u}
              /\ user_sessions'[u] = new_session
              /\ conversation_context'[u] = new_context
              /\ \A v \in DOMAIN user_sessions :
                    /\ user_sessions'[v] = user_sessions[v]
                    /\ conversation_context'[v] = conversation_context[v]]_vars

\* a start command was answered and its user is the only one with a session
C14_Witness ==
    \E u \in Users :
        /\ answered_command(u, "start")
        /\ DOMAIN user_sessions = {u}
        /\ user_sessions[u] = new_session
        /\ conversation_context[u] = new_context

---------------------------------------------------------------------------
(* What the properties of the monitor read *)

\* the step is a call of the method op for user_id: every method but no
\* tick of the clock sets returned
called(op, user_id) ==
    /\ returned'.op = op
    /\ returned'.user_id = user_id
    /\ now' = now

\* user_id has a question pending
pending(user_id) ==
    /\ user_id \in DOMAIN metrics
    /\ metrics[user_id].current_question # None

\* the per-user counts and histories, all empty for a user with no entry
tracked(user_id) ==
    IF user_id \in DOMAIN metrics THEN metrics[user_id] ELSE new_metrics

---------------------------------------------------------------------------
(* C15 *)

\* the reply to the message of u handled last is the question the planner
\* logged last
question_emitted(u) ==
    /\ answered_text(u)
    /\ conversation_context[u].questions_asked # <<>>
    /\ sent.replies =
           <<conversation_context[u].questions_asked[
                 Len(conversation_context[u].questions_asked)]>>

\* C15: after a message of a user was answered with a question of the
\* planner, the monitor holds a pending question of that user that carries
\* the question sent.
C15_TimerOpened ==
    \A u \in Users :
        question_emitted(u) =>
            /\ u \in DOMAIN metrics
            /\ metrics[u].current_question # None
            /\ metrics[u].current_question[1].question = sent.replies[1]

---------------------------------------------------------------------------
(* C16 *)

\* C16: record_response for a user with no pending question returns 0 and
\* changes no per-user and no global metric; for a user with a pending
\* question it returns a time that is not negative.
C16_NoPendingNoEffect ==
    [][\A u \in MonUsers :
          called("record_response", u) =>
              IF pending(u)
              THEN returned'.value[1] >= 0
              ELSE /\ returned'.value = Some(0)
                   /\ metrics' = metrics
                   /\ global_metrics' = global_metrics]_vars

\* record_response was called last, for a user whose question had timed out
\* and for whom no response was ever recorded; another user was never
\* tracked
C16_Witness ==
    \E u \in DOMAIN metrics :
        /\ returned = Returned("record_response", u, Some(0))
        /\ metrics[u].timeouts > 0
        /\ metrics[u].questions = <<>>
        /\ metrics[u].current_question = None
        /\ global_metrics.total_responses = 0

---------------------------------------------------------------------------
(* C17 *)

\* the last n items of xs
last_items(xs, n) == SubSeq(xs, Len(xs) - n + 1, Len(xs))

\* C17: with the responses of one user, whose 'response_times' list is the
\* history of every response recorded, the global deque holds the last
\* min(N, 100) times of the N recorded, in order, and never more than 100.
C17_LastHundred ==
    \A u \in LongUsers :
        LET history == tracked(u).response_times
            N       == Len(history)
        IN  /\ N = global_metrics.total_responses
            /\ Len(global_metrics.response_times) <= maxlen
            /\ global_metrics.response_times =
                   last_items(history, IF N < maxlen THEN N ELSE maxlen)

\* more responses than the deque holds were recorded, the oldest of them
\* took time and the deque no longer holds it
C17_Witness ==
    \E u \in DOMAIN metrics :
        /\ Len(metrics[u].response_times) > maxlen
        /\ metrics[u].response_times[1] > 0
        /\ \A i \in 1..Len(global_metrics.response_times) :
              global_metrics.response_times[i] = 0

---------------------------------------------------------------------------
(* C18 *)

\* C18: start_question for a user with a question pending leaves a pending
\* question started now, adds one to the questions counted, and changes no
\* timeout count, no response count and no history, of that user, of the
\* other users or global; a user never has more than one question pending.
C18_Overwrite ==
    [][\A u \in MonUsers :
          /\ u \in DOMAIN metrics' => Len(metrics'[u].current_question) <= 1
          /\ (called("start_question", u) /\ pending(u)) =>
                /\ metrics'[u].current_question # None
                /\ metrics'[u].current_question[1].question \in Questions
                /\ metrics'[u].current_question[1].start_time = now
                /\ metrics'[u].timeouts = metrics[u].timeouts
                /\ metrics'[u].questions = metrics[u].questions
                /\ metrics'[u].response_times = metrics[u].response_times
                /\ DOMAIN metrics' = DOMAIN metrics
                /\ \A v \in DOMAIN metrics \ {u} : metrics'[v] = metrics[v]
                /\ global_metrics' =
                       [global_metrics EXCEPT !.total_questions = @ + 1]]_vars

\* two questions were started for the only user tracked, the second is
\* pending and was started later than the first could have been, and
\* nothing else was counted
C18_Witness ==
    \E u \in MonUsers :
        /\ DOMAIN metrics = {u}
        /\ returned = Returned("start_question", u, None)
        /\ global_metrics.total_questions = 2
        /\ global_metrics.total_responses = 0
        /\ global_metrics.timeouts = 0
        /\ metrics[u].timeouts = 0
        /\ metrics[u].questions = <<>>
        /\ metrics[u].current_question # None
        /\ metrics[u].current_question[1].question = <<"q2">>
        /\ metrics[u].current_question[1].start_time > 0

---------------------------------------------------------------------------
(* C19 *)

---------------------------------------------------------------------------
(* C20 *)

\* C20: the dict get_user_stats returns has a 'timeout_rate' of
\* timeouts / (questions answered + timeouts), of 0 when the user has
\* neither, and for a user with no entry has every count and rate 0.
C20_TimeoutRate ==
    returned.op = "get_user_stats" =>
        LET stats    == returned.value[1]
            timeouts == tracked(returned.user_id).timeouts
            answered == Len(tracked(returned.user_id).questions)
        IN  /\ {"total_questions", "avg_response_time", "timeouts",
                "timeout_rate"} \subseteq DOMAIN stats
            /\ stats.timeouts = timeouts
            /\ stats.timeout_rate =
                   IF answered + timeouts > 0
                   THEN div(timeouts, answered + timeouts)
                   ELSE div(0, 1)

---------------------------------------------------------------------------
(* C21 *)

\* the lines of the list the call made last returned
suggested == {returned.value[1][i] : i \in 1..Len(returned.value[1])}

\* the mean of the global deque is more than twice the target
slow_average ==
    /\ global_metrics.response_times # <<>>
    /\ sum(global_metrics.response_times) >
           2 * target_response_time * Len(global_metrics.response_times)

\* the timeouts are more than a fifth of the responses
many_timeouts == 5 * global_metrics.timeouts > global_metrics.total_responses

\* the responses are fewer than four fifths of the questions: the rate is
\* 0 when there is no question
low_response_rate ==
    \/ global_metrics.total_questions = 0
    \/ 5 * global_metrics.total_responses < 4 * global_metrics.total_questions

\* C21: the list get_optimization_suggestions returns is never empty, holds
\* the heading of each of the three warnings exactly when its condition
\* holds, and holds the line of optimal performance exactly when none does.
C21_Suggestions ==
    returned.op = "get_optimization_suggestions" =>
        /\ returned.value[1] # <<>>
        /\ (\E line \in suggested : line[1] = slow_suggestions(div(0, 1))[1][1])
               <=> slow_average
        /\ (timeout_suggestions[1] \in suggested) <=> many_timeouts
        /\ (rate_suggestions[1] \in suggested) <=> low_response_rate
        /\ (optimal_suggestions[1] \in suggested)
               <=> ~(slow_average \/ many_timeouts \/ low_response_rate)

\* the suggestions were asked for when only the average was too high
C21_Witness ==
    /\ returned.op = "get_optimization_suggestions"
    /\ slow_average
    /\ ~many_timeouts
    /\ ~low_response_rate
    /\ returned.value[1] = slow_suggestions(global_metrics.avg_response_time)

---------------------------------------------------------------------------
(* C22 *)

\* the update has no effective_user or no message
malformed(eu, has_message) == eu = NoUser \/ ~has_message

\* C22: a command or a text message whose update has no user or no
\* message, and a text message with no text, changes neither dictionary:
\* no session is created and no session or context field changes.
C22_MalformedDropped ==
    [][\A eu \in Users \cup {NoUser}, has_message \in BOOLEAN :
          /\ (/\ malformed(eu, has_message)
              /\ \/ start_command(eu, has_message)
                 \/ create_command(eu, has_message)
                 \/ status_command(eu, has_message)
                 \/ cancel_command(eu, has_message)
                 \/ summary_command(eu, has_message)
                 \/ help_command(eu, has_message))
                => UNCHANGED <<user_sessions, conversation_context>>
          /\ \A text \in RawTexts :
                (/\ malformed(eu, has_message) \/ text = <<>>
                 /\ handle_instant_message(eu, has_message, text))
                    => UNCHANGED <<user_sessions, conversation_context>>]_vars

\* a text message with a text and no user was handled last and got no
\* reply, while a user is in a conversation and another has no session
C22_Witness ==
    /\ sent.user = NoUser
    /\ sent.command = "text"
    /\ sent.text # <<>>
    /\ sent.replies = <<>>
    /\ \E u \in DOMAIN user_sessions : user_sessions[u].status = "brainstorming"
    /\ DOMAIN user_sessions # Users

---------------------------------------------------------------------------
(* C23 *)

\* C23: a status, summary or cancel command of a user with no session is
\* answered with one message that tells so (cancel: that the conversation
\* is reset) and leaves both dictionaries as they were, the user in
\* neither.
C23_NoActiveSession ==
    [][\A u \in Users :
          u \notin DOMAIN user_sessions =>
              /\ status_command(u, TRUE) => sent'.replies = <<no_active_message>>
              /\ summary_command(u, TRUE) => sent'.replies = <<no_summary_message>>
              /\ cancel_command(u, TRUE) => sent'.replies = <<reset_message>>
              /\ (\/ status_command(u, TRUE)
                  \/ summary_command(u, TRUE)
                  \/ cancel_command(u, TRUE))
                    => /\ UNCHANGED <<user_sessions, conversation_context>>
                       /\ u \notin DOMAIN user_sessions'
                       /\ u \notin DOMAIN conversation_context']_vars

\* a status command of a user with no session was answered, while the
\* other user is in a conversation
C23_Witness ==
    \E u \in Users, v \in DOMAIN user_sessions :
        /\ answered_command(u, "status")
        /\ sent.replies = <<no_active_message>>
        /\ u \notin DOMAIN user_sessions
        /\ u \notin DOMAIN conversation_context
        /\ user_sessions[v].status = "brainstorming"

---------------------------------------------------------------------------
(* C24 *)

\* the texts of the user in a conversation flow, in order
RECURSIVE user_texts(_)
user_texts(flow) ==
    IF flow = <<>> THEN <<>>
    ELSE (IF Head(flow).type = "user" THEN <<Head(flow).content>> ELSE <<>>)
             \o user_texts(Tail(flow))

\* the session and the context of a user after one more message, from the
\* session and the context of that user alone
alone_step(state, message_text) ==
    LET heard == [state.context EXCEPT !.conversation_flow =
                     Append(@, [type |-> "user", content |-> message_text])]
        r == generate_instant_response(state.session, heard, message_text)
    IN  [session |-> r.session,
         context |-> [r.context EXCEPT !.conversation_flow =
                         Append(@, [type |-> "bot", content |-> r.response])]]

\* the session and the context of a user who sends the texts to a bot
\* that has no other user
RECURSIVE alone(_, _)
alone(state, texts) ==
    IF texts = <<>> THEN state
    ELSE alone(alone_step(state, Head(texts)), Tail(texts))

\* C24: an update of one user leaves the session and the context of every
\* other user, and whether that user has them, as they were; and the
\* session and the context of a user are those the user's own messages
\* since the last reset give on a bot with no other user.
C24_Isolation ==
    [][\A b \in Users :
          /\ sent'.user # b =>
                /\ b \in DOMAIN user_sessions' <=> b \in DOMAIN user_sessions
                /\ b \in DOMAIN conversation_context'
                       <=> b \in DOMAIN conversation_context
                /\ b \in DOMAIN user_sessions =>
                       user_sessions'[b] = user_sessions[b]
                /\ b \in DOMAIN conversation_context =>
                       conversation_context'[b] = conversation_context[b]
          /\ b \in DOMAIN user_sessions' =>
                [session |-> user_sessions'[b],
                 context |-> conversation_context'[b]]
                    = alone([session |-> new_session, context |-> new_context],
                            user_texts(conversation_context'[b].conversation_flow))]_vars

\* a message of one user was answered while both users are in
\* conversations that differ and both have given a reply
C24_Witness ==
    \E a, b \in DOMAIN user_sessions :
        /\ a # b
        /\ answered_text(a)
        /\ conversation_context[a].responses_given # <<>>
        /\ conversation_context[b].responses_given # <<>>
        /\ conversation_context[a].conversation_flow
               # conversation_context[b].conversation_flow

---------------------------------------------------------------------------
(* C25 *)

\* xs is a prefix of ys
is_prefix(xs, ys) == Len(xs) <= Len(ys) /\ SubSeq(ys, 1, Len(xs)) = xs

\* C25: unless the step is a start or create command of the user, the
\* conversation flow of a user who keeps a context is a prefix of the flow
\* after the step; a text message that is handled appends two entries, the
\* stripped text as the user's and the reply as the bot's; and the entries
\* of every flow are the user's and the bot's in turn.
C25_AppendOnly ==
    [][\A u \in Users :
          /\ (/\ u \in DOMAIN conversation_context
              /\ u \in DOMAIN conversation_context'
              /\ ~(start_command(u, TRUE) \/ create_command(u, TRUE)))
                => is_prefix(conversation_context[u].conversation_flow,
                             conversation_context'[u].conversation_flow)
          /\ \A text \in RawTexts \ {<<>>} :
                handle_instant_message(u, TRUE, text) =>
                    conversation_context'[u].conversation_flow =
                        (IF u \in DOMAIN conversation_context
                         THEN conversation_context[u].conversation_flow
                         ELSE <<>>)
                        \o <<[type |-> "user", content |-> strip(text)],
                             [type |-> "bot", content |-> sent'.replies[1]]>>
          /\ u \in DOMAIN conversation_context' =>
                \A i \in 1..Len(conversation_context'[u].conversation_flow) :
                    conversation_context'[u].conversation_flow[i].type =
                        IF i % 2 = 1 THEN "user" ELSE "bot"]_vars

\* the second message of a conversation was answered: the flow has four
\* entries and ends with the stripped text and the reply
C25_Witness ==
    \E u \in DOMAIN conversation_context :
        /\ answered_text(u)
        /\ Len(flow_of(u)) = 4
        /\ flow_of(u)[3] = [type |-> "user", content |-> strip(sent.text)]
        /\ flow_of(u)[4] = [type |-> "bot", content |-> sent.replies[1]]
        /\ flow_of(u)[3].content # flow_of(u)[1].content

---------------------------------------------------------------------------
(* C26 *)

\* the text part occurs in the text
occurs(part, text) ==
    \E i \in 0..(Len(text) - Len(part)) :
        SubSeq(text, i + 1, i + Len(part)) = part

\* C26 as stated: the post a summary command produces is not empty and
\* every reply of responses_given occurs in it.
C26_EveryReply ==
    \A u \in Users :
        summarized(u) =>
            /\ sent.replies[2] # <<>>
            /\ \A i \in 1..Len(conversation_context[u].responses_given) :
                  occurs(conversation_context[u].responses_given[i],
                         sent.replies[2])

---------------------------------------------------------------------------
(* C27 *)

\* C27: a status command, answered or dropped, leaves both dictionaries as
\* they were: the users that have a session and every field of every
\* session and context.
C27_StatusReadOnly ==
    [][\A eu \in Users \cup {NoUser}, has_message \in BOOLEAN :
          status_command(eu, has_message) =>
              UNCHANGED <<user_sessions, conversation_context>>]_vars

\* a status command was answered with the status of a conversation of two
\* messages
C27_Witness ==
    \E u \in DOMAIN user_sessions :
        /\ answered_command(u, "status")
        /\ sent.replies =
               <<status_text(user_sessions[u], conversation_context[u])>>
        /\ user_sessions[u].questions_asked = 2
        /\ Len(flow_of(u)) = 4

---------------------------------------------------------------------------
(* C28 *)

\* the areas the planner asks about
six_areas == {areas_needed[i].area : i \in 1..Len(areas_needed)}

\* C28: no reply is the fallback question, and no session has all six
\* areas covered with fewer than four questions counted.
C28_NoFallback ==
    /\ \A i \in 1..Len(sent.replies) : sent.replies[i] # fallback_question
    /\ \A u \in DOMAIN conversation_context :
          six_areas \subseteq conversation_context[u].focus_areas_covered
              => user_sessions[u].questions_asked >= MinQuestions

\* a message was handled with all six areas covered and was answered with
\* the ready prompt
C28_Witness ==
    \E u \in DOMAIN conversation_context :
        /\ answered_text(u)
        /\ six_areas \subseteq conversation_context[u].focus_areas_covered
        /\ sent.replies = <<ready_prompt>>

---------------------------------------------------------------------------
(* C29 *)

\* C29 as stated: a handled message answered with a question adds one
\* area to focus_areas_covered, one text to questions_asked and one to the
\* counter of the session; one answered with the ready prompt changes none
\* of the three.
C29_OnePerQuestion ==
    [][\A u \in LongUsers, text \in LongTexts :
          handle_instant_message(u, TRUE, text) =>
              LET context == IF u \in DOMAIN conversation_context
                             THEN conversation_context[u] ELSE new_context
                  session == IF u \in DOMAIN user_sessions
                             THEN user_sessions[u] ELSE new_session
                  step    == IF sent'.replies = <<ready_prompt>> THEN 0 ELSE 1
              IN  /\ context.focus_areas_covered
                         \subseteq conversation_context'[u].focus_areas_covered
                  /\ Cardinality(conversation_context'[u].focus_areas_covered)
                         = Cardinality(context.focus_areas_covered) + step
                  /\ Len(conversation_context'[u].questions_asked)
                         = Len(context.questions_asked) + step
                  /\ SubSeq(conversation_context'[u].questions_asked, 1,
                            Len(context.questions_asked)) = context.questions_asked
                  /\ user_sessions'[u].questions_asked
                         = session.questions_asked + step]_vars

---------------------------------------------------------------------------
(* C30 *)

\* C30: record_response for a user with a pending question returns the
\* time since the question started, appends it to the user's
\* 'response_times' and to the global deque (which drops its oldest item
\* when full), adds one to total_responses and leaves no question pending;
\* a record_response of the same user that follows returns 0 and changes
\* no metric.
C30_RecordOnce ==
    [][\A u \in MonUsers :
          called("record_response", u) =>
              IF pending(u)
              THEN LET latency == returned'.value[1]
                       grown   == Append(global_metrics.response_times, latency)
                   IN  /\ latency = now - metrics[u].current_question[1].start_time
                       /\ metrics'[u].response_times =
                              Append(metrics[u].response_times, latency)
                       /\ Len(metrics'[u].questions) = Len(metrics[u].questions) + 1
                       /\ global_metrics'.response_times =
                              last_items(grown, IF Len(grown) < maxlen
                                                THEN Len(grown) ELSE maxlen)
                       /\ global_metrics'.total_responses =
                              global_metrics.total_responses + 1
                       /\ metrics'[u].current_question = None
              ELSE (returned.op = "record_response" /\ returned.user_id = u) =>
                       /\ returned'.value = Some(0)
                       /\ metrics' = metrics
                       /\ global_metrics' = global_metrics]_vars

\* record_response was called twice for the one question of a user that
\* was answered after a tick: the second call returned 0 and the one time
\* recorded is the tick
C30_Witness ==
    \E u \in DOMAIN metrics :
        /\ returned = Returned("record_response", u, Some(0))
        /\ metrics[u].response_times = <<1>>
        /\ global_metrics.response_times = <<1>>
        /\ global_metrics.total_responses = 1
        /\ global_metrics.total_questions = 1
        /\ metrics[u].current_question = None

---------------------------------------------------------------------------
(* C32 *)

\* C32: the users with a session are the users with a context.
C32_SameKeys == DOMAIN user_sessions = DOMAIN conversation_context

\* a cancel command of a user was answered and the user is in neither
\* dictionary, while the other user, who has answered a question, is in both
C32_Witness ==
    \E u \in DOMAIN user_sessions, v \in Users :
        /\ answered_command(v, "cancel")
        /\ v \notin DOMAIN user_sessions
        /\ v \notin DOMAIN conversation_context
        /\ u \in DOMAIN conversation_context
        /\ conversation_context[u].responses_given # <<>>

---------------------------------------------------------------------------
(* C34 *)

\* the users with a question pending
open_timers == {u \in DOMAIN metrics : metrics[u].current_question # None}

\* C34: total_responses plus the number of users with a question pending
\* is at most total_questions, so total_responses is at most
\* total_questions and the response rate at most 1.
C34_ResponsesWithinQuestions ==
    /\ global_metrics.total_responses + Cardinality(open_timers)
           <= global_metrics.total_questions
    /\ ~less(div(1, 1), global_stats.response_rate)

\* one question was answered and another is pending: the bound is met
C34_Witness ==
    /\ global_metrics.total_responses = 1
    /\ Cardinality(open_timers) = 1
    /\ global_metrics.total_questions = 2
    /\ global_stats.response_rate = div(1, 2)

---------------------------------------------------------------------------
(* C35 *)

\* C35 as stated: total_responses plus the global timeouts is at most
\* total_questions.
C35_ResolvedOnce ==
    global_metrics.total_responses + global_metrics.timeouts
        <= global_metrics.total_questions

---------------------------------------------------------------------------
(* C36 *)

\* the sum of the 'timeouts' of the users of a set
RECURSIVE user_timeouts(_)
user_timeouts(users) ==
    IF users = {} THEN 0
    ELSE LET u == CHOOSE x \in users : TRUE
         IN  metrics[u].timeouts + user_timeouts(users \ {u})

\* C36 as stated: the global timeouts are the sum of the timeouts of the
\* users that have an entry.
C36_TimeoutsAddUp == global_metrics.timeouts = user_timeouts(DOMAIN metrics)

---------------------------------------------------------------------------
(* C37 *)

\* the ready prompt was a reply in the conversation of u
terminated(u) ==
    \E i \in 1..Len(flow_of(u)) :
        flow_of(u)[i] = [type |-> "bot", content |-> ready_prompt]

\* C37: in a conversation with no message that is empty once stripped, the
\* counter of the session is the number of areas in focus_areas_covered
\* ('initial_idea' counted) and at most 7, and while the idea is set and
\* the ready prompt was not yet a reply, questions_asked has one text more
\* than responses_given.
C37_CountsAgree ==
    \A u \in DOMAIN conversation_context :
        substantive(u) =>
            /\ user_sessions[u].questions_asked
                   = Cardinality(conversation_context[u].focus_areas_covered)
            /\ user_sessions[u].questions_asked <= 7
            /\ (truthy(conversation_context[u].initial_idea) /\ ~terminated(u)) =>
                   Len(conversation_context[u].questions_asked)
                       = Len(conversation_context[u].responses_given) + 1

\* the last of the seven questions was just asked in a conversation with
\* no empty message
C37_Witness ==
    \E u \in DOMAIN conversation_context :
        /\ answered_text(u)
        /\ substantive(u)
        /\ ~terminated(u)
        /\ user_sessions[u].questions_asked = 7
        /\ Len(conversation_context[u].responses_given) = 6

---------------------------------------------------------------------------
(* C31 *)

\* C31: a user gets a metrics entry only in a start_question call for that
\* user, every start_question call leaves its user with an entry, and no
\* entry is ever removed; so no other method of the monitor and no step
\* of the bot, one that creates a session included, changes the users that
\* have an entry.
C31_LazyEntry ==
    [][/\ \A u \in MonUsers :
             /\ (u \in DOMAIN metrics' /\ u \notin DOMAIN metrics) =>
                    \E question \in Questions : start_question(u, question)
             /\ \A question \in Questions :
                    start_question(u, question) => u \in DOMAIN metrics'
             /\ u \in DOMAIN metrics => u \in DOMAIN metrics'
             /\ \A response \in Responses :
                    record_response(u, response) => DOMAIN metrics' = DOMAIN metrics
             /\ (record_timeout(u) \/ get_user_stats(u)) =>
                    DOMAIN metrics' = DOMAIN metrics
       /\ (get_global_stats \/ get_optimization_suggestions) =>
              DOMAIN metrics' = DOMAIN metrics
       /\ DOMAIN user_sessions' # DOMAIN user_sessions => metrics' = metrics]_vars

\* the bot has a session for a user the monitor has no entry for, although
\* record_response, record_timeout and get_user_stats were called for that
\* user; the monitor has an entry for the other user
C31_Witness ==
    \E u \in DOMAIN user_sessions, v \in DOMAIN metrics :
        /\ u \notin DOMAIN metrics
        /\ u # v
        /\ returned.op = "get_user_stats"
        /\ returned.user_id = u
        /\ global_metrics.timeouts > 0
        /\ metrics[v].timeouts = 0

---------------------------------------------------------------------------
(* C33 *)

\* C33: with the handlers of a user interleaving at their awaits, no
\* handler is suspended anywhere but at its reply_text call, so none is
\* between reading the session and appending the bot's entry when a
\* cancel runs; and in every flow each entry of the user is followed at
\* once by the bot's entry with the reply computed for it, the session
\* and the context being those the user's texts give one after the other.
C33_AtomicMessage ==
    /\ \A h \in in_flight : h.at = "reply_text"
    /\ \A u \in DOMAIN conversation_context :
          /\ Len(flow_of(u)) % 2 = 0
          /\ \A i \in 1..Len(flow_of(u)) :
                flow_of(u)[i].type = IF i % 2 = 1 THEN "user" ELSE "bot"
          /\ [session |-> user_sessions[u], context |-> conversation_context[u]]
                 = alone([session |-> new_session, context |-> new_context],
                         user_texts(flow_of(u)))

\* two message handlers of one user and a cancel are suspended at once,
\* and a message was handled after the cancel
C33_Witness ==
    \E h1, h2, h3 \in in_flight :
        /\ h1.user = h2.user
        /\ h2.user = h3.user
        /\ h1.text # <<>>
        /\ h2.text # <<>>
        /\ h1.text # h2.text
        /\ h3.text = <<>>
        /\ h1.user \in DOMAIN conversation_context
        /\ Len(flow_of(h1.user)) = 2

---------------------------------------------------------------------------
(* C38 *)

\* C38: a _run call returns a text.  When the question is in the cache it
\* returns the cached text without calling the input handler and appends
\* the question entry and one response entry with that text; otherwise it
\* calls the handler, and when the handler raises it returns the fallback
\* reply and appends only the question entry, and when the handler
\* returns it returns that text and appends the question entry and one
\* response entry with it.
C38_RunNeverRaises ==
    [][\A question \in Questions :
          run(question) =>
              LET asked == Append(conversation_history,
                                  [type |-> "agent_question", content |-> question])
                  answered == Append(asked, [type |-> "human_response",
                                             content |-> ran'.result])
              IN  /\ ran'.question = question
                  /\ IF question \in DOMAIN response_cache
                     THEN /\ ~ran'.handled
                          /\ ran'.result = response_cache[question]
                          /\ conversation_history' = answered
                     ELSE /\ ran'.handled
                          /\ IF ran'.raised
                             THEN /\ ran'.result = fallback_reply
                                  /\ conversation_history' = asked
                             ELSE conversation_history' = answered]_vars

\* a question was answered from the cache and the handler then raised for
\* another question: the history ends with a question entry that has no
\* response entry
C38_Witness ==
    /\ ran.raised
    /\ ran.result = fallback_reply
    /\ Len(conversation_history) = 3
    /\ conversation_history[1].type = "agent_question"
    /\ conversation_history[2] = [type |-> "human_response", content |-> <<"cached">>]
    /\ conversation_history[3] = [type |-> "agent_question", content |-> ran.question]

=============================================================================
